---- MODULE Spec2Model ----
(***************************************************************************)
(* Model of wmediumd's control server (src/wmediumd/wserver.c): the        *)
(* lifecycle (start_wserver / run_wserver / stop_wserver / SIGINT), the    *)
(* acceptor's libevent loop, one worker thread per accepted connection     *)
(* and the request handlers working on the station list and snr matrix.    *)
(***************************************************************************)
EXTENDS Integers, Sequences, FiniteSets, TLC

(* ------------------------------ bounds --------------------------------- *)
MaxConns == 2
MaxReqs == 2
MaxStop == 1
MaxSnr == 1

Conns == 1..MaxConns
Addrs == {1, 2}
SnrVals == 1..MaxSnr
Ids == 0..2

(* --------------------------- program constants ------------------------- *)
WACTION_CONTINUE == 0
WACTION_ERROR == 1
WACTION_DISCONNECTED == 2
WACTION_CLOSE == 3

EAGAIN == 11
ENOMEM == 12
EEXIST == 17
ENODEV == 19
EPIPE == 32
ECONNRESET == 104

ListenFd == 3
DefaultSnr == 0
MaxByte == 255
NoStation == -1
NotCalled == -1

VARIABLES
    proc,               \* "running" | "exited" (exit(), or killed by a fault)
    start_ret,          \* return value of start_wserver, NotCalled before
    srv_pc,             \* position of the server thread in run_wserver
    cancel_pending,     \* pthread_cancel(server_thread) requested
    stops,              \* number of stop_wserver calls made
    listen_soc,         \* static int listen_soc
    sock_state,         \* the listening socket: "none" | "listening" | "closed"
    path_exists,        \* WSERVER_SOCKET_PATH exists in the filesystem
    sig_handler,        \* current SIGINT disposition
    old_sig_handler,    \* static __sighandler_t old_sig_handler
    cleanup_count,      \* executions of close(listen_soc) + unlink(path)
    server_event_base,  \* "null" | "live" | "freed"
    event_break,        \* loopbreak flag of the event base
    base_misuse,        \* event_base_loopbreak called on a non-live base
    w_pc,               \* per connection: position of its worker
    nreq,               \* headers read so far, over all connections
    req,                \* per connection: request being handled
    loc,                \* per connection: sender / receiver of handle_update_request
    last,               \* per connection: record of the last request read
    stations,           \* ctx->stations, in list order
    snr_matrix,         \* ctx->snr_matrix, num_stas * num_stas cells
    snr_lock            \* 0 when free, else the connection holding it

life_vars == <<proc, start_ret, srv_pc, cancel_pending, stops, listen_soc,
               sock_state, path_exists, sig_handler, old_sig_handler,
               cleanup_count>>
base_vars == <<server_event_base, event_break, base_misuse>>
conn_vars == <<w_pc, nreq, req, loc, last>>
reg_vars == <<stations, snr_matrix, snr_lock>>
vars == <<life_vars, base_vars, conn_vars, reg_vars>>

num_stas == Len(stations)

NoReq == [kind |-> "none", from_addr |-> 0, to_addr |-> 0, snr |-> 0,
          addr |-> 0, id |-> 0]
NoLoc == [sender |-> NoStation, receiver |-> NoStation]
NoLast == [seq |-> 0, kind |-> "none", result |-> "none", sends |-> 0,
           sret |-> 0, action |-> WACTION_CONTINUE, created_id |-> 0,
           prev |-> "none", peer_dead |-> FALSE, ov |-> [d \in Conns |-> 0],
           closes |-> 0]

Init ==
    /\ proc = "running"
    /\ start_ret = NotCalled
    /\ srv_pc = "none"
    /\ cancel_pending = FALSE
    /\ stops = 0
    /\ listen_soc = 0
    /\ sock_state = "none"
    /\ path_exists \in BOOLEAN
    /\ sig_handler = "orig"
    /\ old_sig_handler = "SIG_DFL"
    /\ cleanup_count = 0
    /\ server_event_base = "null"
    /\ event_break = FALSE
    /\ base_misuse = FALSE
    /\ w_pc = [c \in Conns |-> "idle"]
    /\ nreq = 0
    /\ req = [c \in Conns |-> NoReq]
    /\ loc = [c \in Conns |-> NoLoc]
    /\ last = [c \in Conns |-> NoLast]
    /\ stations \in {<< [addr |-> 1, index |-> 0, id |-> 1] >>,
                     << [addr |-> 1, index |-> 0, id |-> 1],
                        [addr |-> 2, index |-> 1, id |-> 2] >>,
                     << [addr |-> 1, index |-> 0, id |-> MaxByte] >>}
    /\ snr_matrix = [k \in 0..(Len(stations) * Len(stations) - 1) |-> DefaultSnr]
    /\ snr_lock = 0

(* ------------------------------ lifecycle ------------------------------ *)

\* shutdown_wserver: restore the handler, close(listen_soc), unlink the path
ShutdownWserver ==
    /\ sig_handler' = old_sig_handler
    /\ cleanup_count' = cleanup_count + 1
    /\ sock_state' = IF listen_soc = ListenFd /\ sock_state = "listening"
                     THEN "closed" ELSE sock_state
    /\ path_exists' = FALSE

\* start_wserver: pthread_create's result is the return value
StartWserver ==
    /\ proc = "running"
    /\ start_ret = NotCalled
    /\ \E r \in {0, EAGAIN} :
          /\ start_ret' = r
          /\ srv_pc' = IF r = 0 THEN "sig" ELSE srv_pc
    /\ UNCHANGED <<proc, cancel_pending, stops, listen_soc, sock_state,
                   path_exists, sig_handler, old_sig_handler, cleanup_count>>
    /\ UNCHANGED <<base_vars, conn_vars, reg_vars>>

\* run_wserver, line 372
RunInstallSig ==
    /\ proc = "running"
    /\ srv_pc = "sig"
    /\ old_sig_handler' = sig_handler
    /\ sig_handler' = "handle_sigint"
    /\ srv_pc' = "create"
    /\ UNCHANGED <<proc, start_ret, cancel_pending, stops, listen_soc,
                   sock_state, path_exists, cleanup_count>>
    /\ UNCHANGED <<base_vars, conn_vars, reg_vars>>

\* create_listen_socket: the descriptor or -1, with its filesystem effects
CreateOutcomes ==
    {[soc |-> -1, path |-> path_exists, why |-> "socket"],
     [soc |-> -1, path |-> FALSE, why |-> "bind"],
     [soc |-> -1, path |-> TRUE, why |-> "listen"],
     [soc |-> ListenFd, path |-> TRUE, why |-> "ok"]}
    \cup (IF path_exists
          THEN {[soc |-> -1, path |-> TRUE, why |-> "unlink"]} ELSE {})

\* run_wserver, lines 374-377
RunCreateSocket ==
    /\ proc = "running"
    /\ srv_pc = "create"
    /\ \E o \in CreateOutcomes :
          /\ listen_soc' = o.soc
          /\ path_exists' = o.path
          /\ sock_state' = IF o.soc < 0 THEN sock_state ELSE "listening"
          /\ srv_pc' = IF o.soc < 0 THEN "done" ELSE "setup"
    /\ UNCHANGED <<proc, start_ret, cancel_pending, stops, sig_handler,
                   old_sig_handler, cleanup_count>>
    /\ UNCHANGED <<base_vars, conn_vars, reg_vars>>

\* run_wserver, lines 380-386
RunSetup ==
    /\ proc = "running"
    /\ srv_pc = "setup"
    /\ server_event_base' = "live"
    /\ event_break' = FALSE
    /\ srv_pc' = "dispatch"
    /\ UNCHANGED <<proc, start_ret, cancel_pending, stops, listen_soc,
                   sock_state, path_exists, sig_handler, old_sig_handler,
                   cleanup_count, base_misuse>>
    /\ UNCHANGED <<conn_vars, reg_vars>>

\* event_base_dispatch returns once the loopbreak flag is seen
DispatchBreak ==
    /\ proc = "running"
    /\ srv_pc = "dispatch"
    /\ ~cancel_pending
    /\ event_break
    /\ srv_pc' = "free"
    /\ UNCHANGED <<proc, start_ret, cancel_pending, stops, listen_soc,
                   sock_state, path_exists, sig_handler, old_sig_handler,
                   cleanup_count>>
    /\ UNCHANGED <<base_vars, conn_vars, reg_vars>>

\* event_base_dispatch: the listening socket is readable, run the callback
DispatchReady ==
    /\ proc = "running"
    /\ srv_pc = "dispatch"
    /\ ~cancel_pending
    /\ ~event_break
    /\ \E c \in Conns : w_pc[c] = "pending"
    /\ srv_pc' = "callback"
    /\ UNCHANGED <<proc, start_ret, cancel_pending, stops, listen_soc,
                   sock_state, path_exists, sig_handler, old_sig_handler,
                   cleanup_count>>
    /\ UNCHANGED <<base_vars, conn_vars, reg_vars>>

\* on_listen_event: accept_connection, then pthread_create on success; the
\* result of pthread_create is not looked at, so a connection whose thread
\* could not be created stays open with nobody serving it ("orphan")
OnListenEvent ==
    /\ proc = "running"
    /\ srv_pc = "callback"
    /\ ~cancel_pending
    /\ \/ \E c \in Conns, r \in {0, EAGAIN} :
            /\ w_pc[c] = "pending"
            /\ w_pc' = [w_pc EXCEPT ![c] = IF r = 0 THEN "await" ELSE "orphan"]
       \/ UNCHANGED w_pc
    /\ srv_pc' = "dispatch"
    /\ UNCHANGED <<proc, start_ret, cancel_pending, stops, listen_soc,
                   sock_state, path_exists, sig_handler, old_sig_handler,
                   cleanup_count>>
    /\ UNCHANGED <<base_vars, nreq, req, loc, last, reg_vars>>

\* run_wserver, lines 389-390
RunFree ==
    /\ proc = "running"
    /\ srv_pc = "free"
    /\ server_event_base' = "freed"
    /\ srv_pc' = "shutdown"
    /\ UNCHANGED <<proc, start_ret, cancel_pending, stops, listen_soc,
                   sock_state, path_exists, sig_handler, old_sig_handler,
                   cleanup_count, event_break, base_misuse>>
    /\ UNCHANGED <<conn_vars, reg_vars>>

\* run_wserver, lines 391-392
RunShutdown ==
    /\ proc = "running"
    /\ srv_pc = "shutdown"
    /\ ~cancel_pending
    /\ ShutdownWserver
    /\ srv_pc' = "done"
    /\ UNCHANGED <<proc, start_ret, cancel_pending, stops, listen_soc,
                   old_sig_handler>>
    /\ UNCHANGED <<base_vars, conn_vars, reg_vars>>

\* the server thread acts on a pending cancellation request
ServerCancelled ==
    /\ proc = "running"
    /\ cancel_pending
    /\ srv_pc \in {"create", "setup", "dispatch", "callback", "free", "shutdown"}
    /\ srv_pc' = "cancelled"
    /\ UNCHANGED <<proc, start_ret, cancel_pending, stops, listen_soc,
                   sock_state, path_exists, sig_handler, old_sig_handler,
                   cleanup_count>>
    /\ UNCHANGED <<base_vars, conn_vars, reg_vars>>

\* a stop that sends no cancellation request
StopWserver_NoCancel ==
    /\ proc = "running"
    /\ start_ret = 0
    /\ stops < MaxStop
    /\ stops' = stops + 1
    /\ cancel_pending' = cancel_pending
    /\ ShutdownWserver
    /\ UNCHANGED <<proc, start_ret, srv_pc, listen_soc, old_sig_handler>>
    /\ UNCHANGED <<base_vars, conn_vars, reg_vars>>

\* stop_wserver: pthread_cancel, then shutdown_wserver
StopWserver ==
    /\ proc = "running"
    /\ start_ret = 0
    /\ stops < MaxStop
    /\ stops' = stops + 1
    /\ cancel_pending' = (cancel_pending \/ srv_pc \notin {"done", "cancelled"})
    /\ ShutdownWserver
    /\ UNCHANGED <<proc, start_ret, srv_pc, listen_soc, old_sig_handler>>
    /\ UNCHANGED <<base_vars, conn_vars, reg_vars>>

\* handle_sigint: shutdown_wserver, then exit
HandleSigint ==
    /\ proc = "running"
    /\ sig_handler = "handle_sigint"
    /\ ShutdownWserver
    /\ proc' = "exited"
    /\ UNCHANGED <<start_ret, srv_pc, cancel_pending, stops, listen_soc,
                   old_sig_handler>>
    /\ UNCHANGED <<base_vars, conn_vars, reg_vars>>

Lifecycle ==
    \/ StartWserver \/ RunInstallSig \/ RunCreateSocket \/ RunSetup
    \/ DispatchBreak \/ DispatchReady \/ OnListenEvent \/ RunFree
    \/ RunShutdown \/ ServerCancelled \/ StopWserver \/ HandleSigint

(* ------------------------ station list and matrix ---------------------- *)

SetMax(S) == CHOOSE x \in S : \A y \in S : y <= x

\* list_for_each_entry with memcmp on addr: the last entry that matches
FindStation(addr) ==
    LET hits == {i \in 1..Len(stations) : stations[i].addr = addr}
    IN IF hits = {} THEN NoStation ELSE stations[SetMax(hits)].index

\* the station ids in use
UsedIds == {stations[i].id : i \in 1..Len(stations)}

HasId(id) == id \in UsedIds

\* the matrix index of the station with this id
IndexOfId(id) ==
    LET i == CHOOSE j \in 1..Len(stations) : stations[j].id = id
    IN stations[i].index

\* the id add_station gives to the next station: never 0, never one in use
NewId == 1 + SetMax({0} \cup UsedIds)

\* the cell with row and column exchanged
MatrixCell_Swapped(sender, receiver) == receiver * num_stas + sender

\* the cell written by handle_update_request
MatrixCell(sender, receiver) == sender * num_stas + receiver

\* add_station: -EEXIST for a known address, else the new id or a failure
add_station(addr) ==
    IF FindStation(addr) # NoStation THEN {-EEXIST} ELSE {NewId, -ENOMEM}

\* del_station_by_mac: -ENODEV for an unknown address, else 0 or a failure
del_station_by_mac(addr) ==
    IF FindStation(addr) = NoStation THEN {-ENODEV} ELSE {0, -ENOMEM}

\* del_station_by_id: -ENODEV for an unknown id, else 0 or a failure
del_station_by_id(id) ==
    IF ~HasId(id) THEN {-ENODEV} ELSE {0, -ENOMEM}

\* the station list after a successful add_station
StationsAfterAdd(addr) ==
    Append(stations, [addr |-> addr, index |-> num_stas, id |-> NewId])

\* the matrix after a successful add_station: old cells kept, new ones default
MatrixAfterAdd ==
    LET n == num_stas
    IN [k \in 0..((n + 1) * (n + 1) - 1) |->
          LET i == k \div (n + 1)
              j == k % (n + 1)
          IN IF i < n /\ j < n THEN snr_matrix[i * n + j] ELSE DefaultSnr]

\* the station list after removing index d: later stations move down by one
StationsAfterDel(d) ==
    LET keep == SelectSeq(stations, LAMBDA st : st.index # d)
    IN [i \in 1..Len(keep) |->
          [addr |-> keep[i].addr,
           index |-> IF keep[i].index > d THEN keep[i].index - 1
                     ELSE keep[i].index,
           id |-> keep[i].id]]

\* the matrix after removing index d: row d and column d are dropped
MatrixAfterDel(d) ==
    LET n == num_stas
    IN [k \in 0..((n - 1) * (n - 1) - 1) |->
          LET i == k \div (n - 1)
              j == k % (n - 1)
              oi == IF i < d THEN i ELSE i + 1
              oj == IF j < d THEN j ELSE j + 1
          IN snr_matrix[oi * n + oj]]

(* ------------------------------- workers ------------------------------- *)

\* wserver_send_msg: 0 when the response was written, else -errno
SendResults == {0, -EPIPE}

\* wserver_recv_msg_rest on a short payload: disconnected or -errno
RestErrors == {WACTION_DISCONNECTED, -ECONNRESET}

UpdPcs == {"upd_lock", "upd_write", "upd_send"}

\* the tail of every handler: a failed send is WACTION_ERROR, else its value
SendAction(sret) == IF sret < 0 THEN WACTION_ERROR ELSE sret

\* the value of wserver_recv_msg_rest passed on as it is
parse_recv_msg_rest_error_Raw(value) == value

\* parse_recv_msg_rest_error
parse_recv_msg_rest_error(value) ==
    IF value > 0 THEN value ELSE WACTION_ERROR

\* a disconnect that returns from the worker without the close
AfterAction_LeakOnDisconnect(action_resp) ==
    IF action_resp = WACTION_DISCONNECTED THEN "closed"
    ELSE IF action_resp = WACTION_ERROR THEN "closing"
    ELSE IF action_resp = WACTION_CLOSE THEN "loopbreak"
    ELSE "await"

\* the while loop of handle_accepted_connection: where action_resp leads
AfterAction(action_resp) ==
    IF action_resp = WACTION_DISCONNECTED THEN "closing"
    ELSE IF action_resp = WACTION_ERROR THEN "closing"
    ELSE IF action_resp = WACTION_CLOSE THEN "loopbreak"
    ELSE "await"

\* a worker that left its loop because the payload could not be read
DiedOfPayload(d) ==
    /\ w_pc[d] \in {"closing", "closed"}
    /\ last[d].result = "resterr"

PeerDead(c) == \E d \in Conns \ {c} : DiedOfPayload(d)

\* a worker that reads the next header while the response is still unsent
CanRead_BeforeSend(c) ==
    /\ proc = "running"
    /\ w_pc[c] \in {"await", "upd_send"}

\* the worker is at the top of its loop, about to call receive_handle_request
CanRead(c) ==
    /\ proc = "running"
    /\ w_pc[c] = "await"

CanReadReq(c) == CanRead(c) /\ nreq < MaxReqs

\* what a handler did: result code, response sends, send's return, action
Outcome(result, sends, sret, action, created) ==
    [result |-> result, sends |-> sends, sret |-> sret, action |-> action,
     created_id |-> created]

NoReply(result, action) == Outcome(result, 0, 0, action, 0)

\* one header read by c, handled with outcome o
Read(c, kind, o) ==
    /\ nreq' = nreq + 1
    /\ last' = [last EXCEPT ![c] =
                  [seq |-> nreq + 1, kind |-> kind, result |-> o.result,
                   sends |-> o.sends, sret |-> o.sret, action |-> o.action,
                   created_id |-> o.created_id, prev |-> last[c].result,
                   peer_dead |-> PeerDead(c), ov |-> [d \in Conns |-> 0],
                   closes |-> last[c].closes]]
    /\ w_pc' = [w_pc EXCEPT ![c] = AfterAction(o.action)]

\* a client connects to the listening socket
ClientConnect(c) ==
    /\ proc = "running"
    /\ w_pc[c] = "idle"
    /\ sock_state = "listening"
    /\ w_pc' = [w_pc EXCEPT ![c] = "pending"]
    /\ UNCHANGED <<life_vars, base_vars, nreq, req, loc, last, reg_vars>>

\* receive_handle_request, lines 269-271: the peer has closed
RecvDisconnected(c) ==
    /\ CanRead(c)
    /\ w_pc' = [w_pc EXCEPT ![c] = AfterAction(WACTION_DISCONNECTED)]
    /\ UNCHANGED <<life_vars, base_vars, nreq, req, loc, last, reg_vars>>

\* receive_handle_request, lines 272-275: recv of the header failed
RecvBaseError(c) ==
    /\ CanRead(c)
    /\ w_pc' = [w_pc EXCEPT ![c] = AfterAction(WACTION_ERROR)]
    /\ UNCHANGED <<life_vars, base_vars, nreq, req, loc, last, reg_vars>>

\* receive_handle_request, lines 276-277
RecvShutdown(c) ==
    /\ CanReadReq(c)
    /\ Read(c, "Shutdown", NoReply("none", WACTION_CLOSE))
    /\ req' = [req EXCEPT ![c] = NoReq]
    /\ UNCHANGED <<life_vars, base_vars, loc, reg_vars>>

\* receive_handle_request, lines 310-312: a kind that is not known
RecvUnknown(c) ==
    /\ CanReadReq(c)
    /\ Read(c, "Unknown", NoReply("none", -1))
    /\ req' = [req EXCEPT ![c] = NoReq]
    /\ UNCHANGED <<life_vars, base_vars, loc, reg_vars>>

\* receive_handle_request: wserver_recv_msg_rest fails for a known kind
RecvRestError(c) ==
    /\ CanReadReq(c)
    /\ \E kind \in {"UpdateSnr", "DeleteByMac", "DeleteById", "Add"},
          value \in RestErrors :
          Read(c, kind, NoReply("resterr", parse_recv_msg_rest_error(value)))
    /\ req' = [req EXCEPT ![c] = NoReq]
    /\ UNCHANGED <<life_vars, base_vars, loc, reg_vars>>

\* Shutdown handled without event_base_loopbreak
LoopBreak_NoFlag(c) ==
    /\ proc = "running"
    /\ w_pc[c] = "loopbreak"
    /\ w_pc' = [w_pc EXCEPT ![c] = "closing"]
    /\ UNCHANGED <<life_vars, base_vars, nreq, req, loc, last, reg_vars>>

\* handle_accepted_connection, lines 338-341
\* on a freed base the call reads and writes released memory: it may return,
\* with or without the flag another owner of that memory sees, or fault
LoopBreak(c) ==
    /\ proc = "running"
    /\ w_pc[c] = "loopbreak"
    /\ \/ /\ server_event_base = "live"
          /\ event_break' = TRUE
          /\ w_pc' = [w_pc EXCEPT ![c] = "closing"]
          /\ UNCHANGED <<base_misuse, proc>>
       \/ /\ server_event_base # "live"
          /\ base_misuse' = TRUE
          /\ event_break' \in BOOLEAN
          /\ \/ w_pc' = [w_pc EXCEPT ![c] = "closing"] /\ UNCHANGED proc
             \/ proc' = "exited" /\ UNCHANGED w_pc
    /\ UNCHANGED <<start_ret, srv_pc, cancel_pending, stops, listen_soc,
                   sock_state, path_exists, sig_handler, old_sig_handler,
                   cleanup_count>>
    /\ UNCHANGED <<server_event_base, nreq, req, loc, last, reg_vars>>

\* handle_accepted_connection, lines 344-346
CloseConn(c) ==
    /\ proc = "running"
    /\ w_pc[c] = "closing"
    /\ w_pc' = [w_pc EXCEPT ![c] = "closed"]
    /\ last' = [last EXCEPT ![c].closes = @ + 1]
    /\ UNCHANGED <<life_vars, base_vars, nreq, req, loc, reg_vars>>

(* ------------------------------ handlers ------------------------------- *)

\* receive_handle_request, lines 278-285: an UpdateSnr request was read
RecvUpdate(c) ==
    /\ CanReadReq(c)
    /\ \E f \in Addrs, t \in Addrs, v \in SnrVals :
          req' = [req EXCEPT ![c] =
                    [kind |-> "UpdateSnr", from_addr |-> f, to_addr |-> t,
                     snr |-> v, addr |-> 0, id |-> 0]]
    /\ nreq' = nreq + 1
    /\ last' = [d \in Conns |->
                  IF d = c
                  THEN [seq |-> nreq + 1, kind |-> "UpdateSnr",
                        result |-> "none", sends |-> 0, sret |-> 0,
                        action |-> WACTION_CONTINUE, created_id |-> 0,
                        prev |-> last[c].result, peer_dead |-> PeerDead(c),
                        ov |-> [e \in Conns |->
                                  IF e # c /\ w_pc[e] \in UpdPcs
                                  THEN last[e].seq ELSE 0],
                        closes |-> last[c].closes]
                  ELSE IF w_pc[d] \in UpdPcs
                       THEN [last[d] EXCEPT !.ov[c] = nreq + 1]
                       ELSE last[d]]
    /\ w_pc' = [w_pc EXCEPT ![c] = "upd_lock"]
    /\ loc' = [loc EXCEPT ![c] = NoLoc]
    /\ UNCHANGED <<life_vars, base_vars, reg_vars>>

\* the lookup without waiting for snr_lock
UpdLock_NoWait(c) ==
    /\ proc = "running"
    /\ w_pc[c] = "upd_lock"
    /\ snr_lock' = c
    /\ loc' = [loc EXCEPT ![c] = [sender |-> FindStation(req[c].from_addr),
                                  receiver |-> FindStation(req[c].to_addr)]]
    /\ w_pc' = [w_pc EXCEPT ![c] = "upd_write"]
    /\ UNCHANGED <<life_vars, base_vars, nreq, req, last, stations, snr_matrix>>

\* handle_update_request, lines 147-156: take the lock, look both up
UpdLock(c) ==
    /\ proc = "running"
    /\ w_pc[c] = "upd_lock"
    /\ snr_lock = 0
    /\ snr_lock' = c
    /\ loc' = [loc EXCEPT ![c] = [sender |-> FindStation(req[c].from_addr),
                                  receiver |-> FindStation(req[c].to_addr)]]
    /\ w_pc' = [w_pc EXCEPT ![c] = "upd_write"]
    /\ UNCHANGED <<life_vars, base_vars, nreq, req, last, stations, snr_matrix>>

\* not-found only when both stations are missing
UpdWrite_BothMissing(c) ==
    /\ proc = "running"
    /\ w_pc[c] = "upd_write"
    /\ IF loc[c].sender = NoStation /\ loc[c].receiver = NoStation
       THEN /\ last' = [last EXCEPT ![c].result = "NOTFOUND"]
            /\ UNCHANGED snr_matrix
       ELSE /\ last' = [last EXCEPT ![c].result = "SUCCESS"]
            /\ snr_matrix' =
                 [k \in DOMAIN snr_matrix |->
                    IF k = (loc[c].sender * num_stas + loc[c].receiver) % (num_stas * num_stas)
                    THEN req[c].snr ELSE snr_matrix[k]]
    /\ snr_lock' = IF snr_lock = c THEN 0 ELSE snr_lock
    /\ w_pc' = [w_pc EXCEPT ![c] = "upd_send"]
    /\ UNCHANGED <<life_vars, base_vars, nreq, req, loc, stations>>

\* a not-found path that leaves the function's critical section locked
UpdWrite_MissKeepsLock(c) ==
    /\ proc = "running"
    /\ w_pc[c] = "upd_write"
    /\ IF loc[c].sender = NoStation \/ loc[c].receiver = NoStation
       THEN /\ last' = [last EXCEPT ![c].result = "NOTFOUND"]
            /\ UNCHANGED <<snr_matrix, snr_lock>>
       ELSE /\ last' = [last EXCEPT ![c].result = "SUCCESS"]
            /\ snr_matrix' =
                 [snr_matrix EXCEPT
                    ![MatrixCell(loc[c].sender, loc[c].receiver)] = req[c].snr]
            /\ snr_lock' = IF snr_lock = c THEN 0 ELSE snr_lock
    /\ w_pc' = [w_pc EXCEPT ![c] = "upd_send"]
    /\ UNCHANGED <<life_vars, base_vars, nreq, req, loc, stations>>

\* handle_update_request, lines 158-169: write the cell or not, then unlock
UpdWrite(c) ==
    /\ proc = "running"
    /\ w_pc[c] = "upd_write"
    /\ IF loc[c].sender = NoStation \/ loc[c].receiver = NoStation
       THEN /\ last' = [last EXCEPT ![c].result = "NOTFOUND"]
            /\ UNCHANGED snr_matrix
       ELSE /\ last' = [last EXCEPT ![c].result = "SUCCESS"]
            /\ snr_matrix' =
                 [snr_matrix EXCEPT
                    ![MatrixCell(loc[c].sender, loc[c].receiver)] = req[c].snr]
    /\ snr_lock' = IF snr_lock = c THEN 0 ELSE snr_lock
    /\ w_pc' = [w_pc EXCEPT ![c] = "upd_send"]
    /\ UNCHANGED <<life_vars, base_vars, nreq, req, loc, stations>>

\* handle_update_request, lines 170-175
UpdSend(c) ==
    /\ proc = "running"
    /\ w_pc[c] = "upd_send"
    /\ \E sret \in SendResults :
          /\ last' = [last EXCEPT ![c].sends = 1, ![c].sret = sret,
                                  ![c].action = SendAction(sret)]
          /\ w_pc' = [w_pc EXCEPT ![c] = AfterAction(SendAction(sret))]
    /\ loc' = [loc EXCEPT ![c] = NoLoc]
    /\ UNCHANGED <<life_vars, base_vars, nreq, req, reg_vars>>

\* a miss answered like a removal
DeleteOutcome_MissIsSuccess(ret, sret) ==
    IF ret # 0
    THEN IF ret = -ENODEV
         THEN Outcome("SUCCESS", 1, sret, SendAction(sret), 0)
         ELSE NoReply("failed", WACTION_ERROR)
    ELSE Outcome("SUCCESS", 1, sret, SendAction(sret), 0)

\* a miss that returns without sending the response
DeleteOutcome_SilentMiss(ret, sret) ==
    IF ret # 0
    THEN IF ret = -ENODEV
         THEN NoReply("NOTFOUND", WACTION_CONTINUE)
         ELSE NoReply("failed", WACTION_ERROR)
    ELSE Outcome("SUCCESS", 1, sret, SendAction(sret), 0)

\* handle_delete_by_id_request / handle_delete_by_mac_request after the
\* registry call returned ret and the send (if reached) returned sret
DeleteOutcome(ret, sret) ==
    IF ret # 0
    THEN IF ret = -ENODEV
         THEN Outcome("NOTFOUND", 1, sret, SendAction(sret), 0)
         ELSE NoReply("failed", WACTION_ERROR)
    ELSE Outcome("SUCCESS", 1, sret, SendAction(sret), 0)

\* a duplicate treated like any other add_station failure
AddOutcome_DuplicateIsError(ret, sret) ==
    IF ret < 0
    THEN IF ret = -EEXIST
         THEN Outcome("DUPLICATE", 1, sret, WACTION_ERROR, 0)
         ELSE NoReply("failed", WACTION_ERROR)
    ELSE Outcome("SUCCESS", 1, sret, SendAction(sret), ret % 256)

\* handle_add_request after add_station returned ret
AddOutcome(ret, sret) ==
    IF ret < 0
    THEN IF ret = -EEXIST
         THEN Outcome("DUPLICATE", 1, sret, SendAction(sret), 0)
         ELSE NoReply("failed", WACTION_ERROR)
    ELSE Outcome("SUCCESS", 1, sret, SendAction(sret), ret % 256)

\* receive_handle_request, lines 294-301, and handle_delete_by_id_request
HandleDeleteById(c) ==
    /\ CanReadReq(c)
    /\ snr_lock = 0
    /\ \E id \in Ids, sret \in SendResults :
        \E ret \in del_station_by_id(id) :
          LET o == DeleteOutcome(ret, sret)
          IN /\ Read(c, "DeleteById", o)
             /\ req' = [req EXCEPT ![c] = [NoReq EXCEPT !.kind = "DeleteById",
                                                        !.id = id]]
             /\ stations' = IF ret = 0 THEN StationsAfterDel(IndexOfId(id))
                            ELSE stations
             /\ snr_matrix' = IF ret = 0 THEN MatrixAfterDel(IndexOfId(id))
                              ELSE snr_matrix
    /\ UNCHANGED <<life_vars, base_vars, loc, snr_lock>>

\* receive_handle_request, lines 286-293, and handle_delete_by_mac_request
HandleDeleteByMac(c) ==
    /\ CanReadReq(c)
    /\ snr_lock = 0
    /\ \E addr \in Addrs, sret \in SendResults :
        \E ret \in del_station_by_mac(addr) :
          LET o == DeleteOutcome(ret, sret)
              d == FindStation(addr)
          IN /\ Read(c, "DeleteByMac", o)
             /\ req' = [req EXCEPT ![c] = [NoReq EXCEPT !.kind = "DeleteByMac",
                                                        !.addr = addr]]
             /\ stations' = IF ret = 0 THEN StationsAfterDel(d) ELSE stations
             /\ snr_matrix' = IF ret = 0 THEN MatrixAfterDel(d) ELSE snr_matrix
    /\ UNCHANGED <<life_vars, base_vars, loc, snr_lock>>

\* receive_handle_request, lines 302-309, and handle_add_request
HandleAdd(c) ==
    /\ CanReadReq(c)
    /\ snr_lock = 0
    /\ \E addr \in Addrs, sret \in SendResults :
        \E ret \in add_station(addr) :
          LET o == AddOutcome(ret, sret)
          IN /\ Read(c, "Add", o)
             /\ req' = [req EXCEPT ![c] = [NoReq EXCEPT !.kind = "Add",
                                                        !.addr = addr]]
             /\ stations' = IF ret >= 0 THEN StationsAfterAdd(addr) ELSE stations
             /\ snr_matrix' = IF ret >= 0 THEN MatrixAfterAdd ELSE snr_matrix
    /\ UNCHANGED <<life_vars, base_vars, loc, snr_lock>>

Worker(c) ==
    \/ ClientConnect(c) \/ RecvDisconnected(c) \/ RecvBaseError(c)
    \/ RecvShutdown(c) \/ RecvUnknown(c) \/ RecvRestError(c)
    \/ LoopBreak(c) \/ CloseConn(c)
    \/ RecvUpdate(c) \/ UpdLock(c) \/ UpdWrite(c) \/ UpdSend(c)
    \/ HandleDeleteById(c) \/ HandleDeleteByMac(c) \/ HandleAdd(c)

Next == Lifecycle \/ \E c \in Conns : Worker(c)

Spec == Init /\ [][Next]_vars

\* the server thread, the workers and the cancellation are always scheduled
FairSpec ==
    /\ Spec
    /\ WF_vars(RunInstallSig)
    /\ WF_vars(DispatchBreak)
    /\ WF_vars(OnListenEvent)
    /\ WF_vars(ServerCancelled)

\* a worker that does not wait for its peer is scheduled: inside
\* handle_update_request it takes the mutex when it is free and runs on to
\* the unlock, and out of its loop it runs on to the close
WorkerFairSpec ==
    /\ Spec
    /\ \A c \in Conns : WF_vars(UpdLock(c)) /\ WF_vars(UpdWrite(c))
    /\ \A c \in Conns : WF_vars(CloseConn(c))

(* ------------------------------- claims -------------------------------- *)

RequestKinds == {"UpdateSnr", "DeleteByMac", "DeleteById", "Add"}

\* c has read a request and is through with handling it
Handled(c) == last[c].seq # 0 /\ w_pc[c] \notin UpdPcs

\* the payload of c's last request was read and its handler was run
Dispatched(c) ==
    /\ Handled(c)
    /\ last[c].kind \in RequestKinds
    /\ last[c].result # "resterr"

\* C1: whatever shutdown triggers fire (SIGINT, a Shutdown command, a call
\* of stop_wserver), close(listen_soc) + unlink(path) is run at most once;
\* a trigger after the cleanup is a no-op.
C1_CleanupExactlyOnce == cleanup_count <= 1

C3_UnknownKindCloses ==
    \A c \in Conns :
        last[c].kind = "Unknown" => w_pc[c] \in {"closing", "closed"}

\* C4: when the listening socket could not be created, bound or put into
\* listening state, start_wserver has reported failure to its caller.
C4_StartReportsFailure == listen_soc < 0 => start_ret # 0

\* the server thread is inside event_base_dispatch
AcceptorInLoop == proc = "running" /\ srv_pc \in {"dispatch", "callback"}

\* a worker has processed a Shutdown request: event_base_loopbreak was called
ShutdownProcessed ==
    \E c \in Conns :
        last[c].kind = "Shutdown" /\ w_pc[c] \in {"closing", "closed"}

\* no worker thread is created by this step
NoWorkerLaunched ==
    \A c \in Conns :
        w_pc[c] \in {"idle", "pending"} => w_pc'[c] \in {"idle", "pending"}

\* C5: after a worker processed a Shutdown request the acceptor leaves
\* event_base_dispatch; with the loopbreak flag set it starts no further
\* callback, and once it is out of the loop no worker is launched any more.
C5_ShutdownStopsAccepting ==
    /\ ShutdownProcessed ~> ~AcceptorInLoop
    /\ [][(event_break /\ srv_pc = "dispatch") => srv_pc' # "callback"]_vars
    /\ [][(srv_pc \in {"free", "shutdown", "done", "cancelled"})
             => (NoWorkerLaunched /\ srv_pc' \notin {"dispatch", "callback"})]_vars

\* the acceptor is out of its loop after a Shutdown command, a client waits
C5_Witness ==
    /\ ShutdownProcessed
    /\ srv_pc = "done"
    /\ stops = 0
    /\ \E c \in Conns : w_pc[c] = "pending"

\* C6: an unreadable payload for a known kind on connection a makes a's
\* worker leave its loop and changes nothing else: no other connection, not
\* the registry, not the lock, not the server; a worker that left its loop
\* reads nothing more.
C6_PayloadErrorIsolated ==
    /\ [][\A a \in Conns :
            (last'[a].result = "resterr" /\ last'[a].seq # last[a].seq)
               => /\ w_pc'[a] = "closing"
                  /\ \A b \in Conns \ {a} :
                        /\ w_pc'[b] = w_pc[b]
                        /\ last'[b] = last[b]
                        /\ req'[b] = req[b]
                        /\ loc'[b] = loc[b]
                  /\ UNCHANGED <<life_vars, base_vars, reg_vars>>]_vars
    /\ [][\A a \in Conns :
            w_pc[a] \in {"closing", "closed"}
               => /\ w_pc'[a] \in {"closing", "closed"}
                  /\ [last'[a] EXCEPT !.closes = 0]
                        = [last[a] EXCEPT !.closes = 0]]_vars
    /\ [](\A a \in Conns : DiedOfPayload(a) => snr_lock # a)

\* connection a died of a short payload, then an Add on b was answered
C6_Witness ==
    \E a \in Conns, b \in Conns :
        /\ a # b
        /\ w_pc[a] = "closed"
        /\ last[a].result = "resterr"
        /\ w_pc[b] = "await"
        /\ last[b].kind = "Add"
        /\ last[b].peer_dead
        /\ last[b].result = "SUCCESS"
        /\ last[b].sends = 1
        /\ last[b].sret = 0

\* c's last request is an UpdateSnr that was applied and answered
UpdateDone(c) ==
    /\ last[c].kind = "UpdateSnr"
    /\ last[c].result = "SUCCESS"
    /\ w_pc[c] \notin UpdPcs

\* the handling of c's and d's last requests overlapped in time
Overlapped(c, d) ==
    /\ last[c].ov[d] # 0
    /\ last[c].ov[d] = last[d].seq
    /\ last[d].ov[c] = last[c].seq

\* the matrix cell an UpdateSnr of c names
CellOf(c) ==
    FindStation(req[c].from_addr) * num_stas + FindStation(req[c].to_addr)

\* no request but the updates of c and d was read since the first of them,
\* and no update of a third connection was under way meanwhile
OnlyThese(c, d) ==
    /\ \A e \in Conns \ {c, d} :
          /\ last[e].seq < last[c].seq
          /\ last[e].seq < last[d].seq
          /\ last[c].ov[e] = 0
          /\ last[d].ov[e] = 0
    /\ last[c].seq - last[d].seq \in {1, -1}

\* C7: the critical sections of handle_update_request exclude each other,
\* and when two UpdateSnr requests for different (from, to) pairs of existing
\* stations were handled concurrently on two connections, both cells hold
\* the requested values once both are answered.
C7_NoLostUpdate ==
    /\ \A c \in Conns : w_pc[c] = "upd_write" => snr_lock = c
    /\ \A c \in Conns, d \in Conns :
          (/\ c # d
           /\ UpdateDone(c) /\ UpdateDone(d)
           /\ Overlapped(c, d)
           /\ OnlyThese(c, d)
           /\ <<req[c].from_addr, req[c].to_addr>>
                 # <<req[d].from_addr, req[d].to_addr>>)
             => /\ snr_matrix[CellOf(c)] = req[c].snr
                /\ snr_matrix[CellOf(d)] = req[d].snr

\* two concurrent updates of the two directions of one link, both answered
C7_Witness ==
    \E c \in Conns, d \in Conns :
        /\ c # d
        /\ UpdateDone(c) /\ UpdateDone(d)
        /\ Overlapped(c, d)
        /\ OnlyThese(c, d)
        /\ req[c].from_addr = req[d].to_addr
        /\ req[c].to_addr = req[d].from_addr
        /\ req[c].from_addr # req[c].to_addr
        /\ snr_matrix[CellOf(c)] = req[c].snr
        /\ snr_matrix[CellOf(d)] = req[d].snr

\* the step of c that runs lines 158-169 of handle_update_request
UpdateApplied(c) == w_pc[c] = "upd_write" /\ w_pc'[c] = "upd_send"

BothExist(c) ==
    /\ FindStation(req[c].from_addr) # NoStation
    /\ FindStation(req[c].to_addr) # NoStation

\* C8: an UpdateSnr naming two existing stations sets the cell
\* (from.index, to.index) to the requested snr, leaves every other cell (the
\* reverse one included) and the station list as they were, and its response
\* carries Success.
C8_UpdateWritesOneCell ==
    [][\A c \in Conns :
         (UpdateApplied(c) /\ BothExist(c))
            => /\ DOMAIN snr_matrix' = DOMAIN snr_matrix
               /\ snr_matrix'[CellOf(c)] = req[c].snr
               /\ \A k \in DOMAIN snr_matrix :
                     k # CellOf(c) => snr_matrix'[k] = snr_matrix[k]
               /\ stations' = stations
               /\ last'[c].result = "SUCCESS"]_vars

\* an answered update of a link 1 -> 2 whose reverse cell kept its default
C8_Witness ==
    \E c \in Conns :
        /\ UpdateDone(c)
        /\ last[c].sends = 1
        /\ req[c].from_addr # req[c].to_addr
        /\ BothExist(c)
        /\ snr_matrix[CellOf(c)] = req[c].snr
        /\ snr_matrix[FindStation(req[c].to_addr) * num_stas
                      + FindStation(req[c].from_addr)] = DefaultSnr

\* C9: an UpdateSnr naming at least one address that is no station changes
\* no cell of the matrix, and its response carries NotFound.
C9_UpdateNotFoundNoChange ==
    [][\A c \in Conns :
         (UpdateApplied(c) /\ ~BothExist(c))
            => /\ snr_matrix' = snr_matrix
               /\ stations' = stations
               /\ last'[c].result = "NOTFOUND"]_vars

\* an answered update that named one known and one unknown address
C9_Witness ==
    \E c \in Conns :
        /\ last[c].kind = "UpdateSnr"
        /\ last[c].result = "NOTFOUND"
        /\ last[c].sends = 1
        /\ w_pc[c] = "await"
        /\ FindStation(req[c].from_addr) # NoStation
        /\ FindStation(req[c].to_addr) = NoStation

\* the step with which c's handler returns to the worker's loop
HandlerReturns(c) ==
    \/ last'[c].seq # last[c].seq /\ w_pc'[c] \notin UpdPcs
    \/ w_pc[c] = "upd_send" /\ w_pc'[c] # "upd_send"

\* C10: on a not-found or duplicate result the handler sends its response
\* and returns what the send returned: with the response written the action
\* is WACTION_CONTINUE and the worker is back at its read.
C10_DomainFailureContinues ==
    [][\A c \in Conns :
         (HandlerReturns(c) /\ last'[c].result \in {"NOTFOUND", "DUPLICATE"})
            => /\ last'[c].sends = 1
               /\ last'[c].action = SendAction(last'[c].sret)
               /\ last'[c].sret = 0
                     => (last'[c].action = WACTION_CONTINUE
                         /\ w_pc'[c] = "await")]_vars

\* a request answered on a connection whose previous request was a duplicate
C10_Witness ==
    \E c \in Conns :
        /\ last[c].prev = "DUPLICATE"
        /\ last[c].result = "NOTFOUND"
        /\ last[c].sends = 1
        /\ w_pc[c] = "await"

\* the step with which c reads and handles an Add request
AddHandled(c) ==
    /\ last'[c].seq # last[c].seq
    /\ last'[c].kind = "Add"
    /\ last'[c].result # "resterr"

\* C11: an Add of a known address answers Duplicate with created id 0 and
\* leaves the registry as it was; an Add of a new address answers Success
\* with the id the registry gave the new station, which is not 0.
C11_AddReportsAssignedId ==
    [][\A c \in Conns :
         AddHandled(c)
            => /\ last'[c].result = "DUPLICATE"
                    => /\ last'[c].created_id = 0
                       /\ stations' = stations
                       /\ snr_matrix' = snr_matrix
               /\ last'[c].result = "SUCCESS"
                    => /\ Len(stations') = Len(stations) + 1
                       /\ stations'[Len(stations')].addr = req'[c].addr
                       /\ last'[c].created_id = stations'[Len(stations')].id
                       /\ last'[c].created_id # 0
               /\ FindStation(req'[c].addr) # NoStation
                    => last'[c].result = "DUPLICATE"
               /\ FindStation(req'[c].addr) = NoStation
                    => last'[c].result \in {"SUCCESS", "failed"}]_vars

\* the step with which c reads and handles a delete request
DelHandled(c) ==
    /\ last'[c].seq # last[c].seq
    /\ last'[c].kind \in {"DeleteById", "DeleteByMac"}
    /\ last'[c].result # "resterr"

\* the station a delete request of c names is in the registry
TargetPresent(c) ==
    IF req'[c].kind = "DeleteById" THEN HasId(req'[c].id)
    ELSE FindStation(req'[c].addr) # NoStation

\* the same question about the registry after the step
TargetPresentAfter(c) ==
    IF req'[c].kind = "DeleteById"
    THEN \E i \in 1..Len(stations') : stations'[i].id = req'[c].id
    ELSE \E i \in 1..Len(stations') : stations'[i].addr = req'[c].addr

\* the step with which c finishes the lookup and write of an UpdateSnr
UpdLookedUp(c) == w_pc[c] = "upd_write" /\ w_pc'[c] = "upd_send"

\* an address that was not in the registry is in it after the step
Appears(a) ==
    /\ FindStation(a) = NoStation
    /\ \E i \in 1..Len(stations') : stations'[i].addr = a

\* a delete that misses answers NotFound and removes nothing; a station that
\* is not in the registry is reported NotFound by every lookup, and only a
\* successful Add of its address brings it back
MissesAreNotFound ==
    \A c \in Conns :
       /\ (DelHandled(c) /\ ~TargetPresent(c))
             => /\ last'[c].result = "NOTFOUND"
                /\ last'[c].sends = 1
                /\ stations' = stations
                /\ snr_matrix' = snr_matrix
       /\ (UpdLookedUp(c) /\ (\/ FindStation(req[c].from_addr) = NoStation
                              \/ FindStation(req[c].to_addr) = NoStation))
             => last'[c].result = "NOTFOUND"
       /\ \A a \in Addrs :
            Appears(a) => \E d \in Conns : /\ AddHandled(d)
                                           /\ last'[d].result = "SUCCESS"
                                           /\ req'[d].addr = a

StopReturned == stops > 0

\* the server thread is gone, or the whole process is
AcceptorLeft == srv_pc \in {"done", "cancelled"} \/ proc = "exited"

\* C13: once stop_wserver has been called the acceptor thread eventually is
\* out of its wait loop, wherever it was when the stop came, and from the
\* return of stop_wserver on no connection is accepted and the acceptor
\* never goes back to waiting.
C13_StopEndsAcceptor ==
    /\ StopReturned ~> AcceptorLeft
    /\ [][StopReturned
            => /\ \A c \in Conns : w_pc[c] = "pending" => w_pc'[c] = "pending"
               /\ srv_pc' = "callback" => srv_pc = "callback"]_vars

\* the stop came before the acceptor had started: the thread still created
\* its listening socket, a client connected to it, and the thread was
\* cancelled without accepting
C13_Witness ==
    /\ StopReturned
    /\ srv_pc = "cancelled"
    /\ sock_state = "listening"
    /\ \E c \in Conns : w_pc[c] = "pending"

\* C14: once the shutdown sequence has run, whoever triggered it and however
\* it interleaved with the start-up, the SIGINT handler in effect is the one
\* that was installed before the server started, not handle_sigint.
C14_HandlerRestored == cleanup_count > 0 => sig_handler = "orig"

\* the step with which c reads the header of its next request
ReadsNext(c) == last'[c].seq # last[c].seq

\* the request c read last has been handled to the end
LastComplete(c) ==
    /\ last[c].kind = "UpdateSnr" => last[c].result \in {"SUCCESS", "NOTFOUND"}
    /\ last[c].result \in {"SUCCESS", "NOTFOUND", "DUPLICATE"}
          => (last[c].sends = 1 /\ last[c].sret = 0)

\* C15: a worker reads the next request of its connection only from the top
\* of its loop, after the request before it was handled to the end and its
\* response was sent; requests are numbered in the order they are read, and
\* while a request is being handled the worker reads nothing and works on
\* that request only.
C15_OneRequestAtATime ==
    [][\A c \in Conns :
         /\ ReadsNext(c)
              => /\ w_pc[c] = "await"
                 /\ LastComplete(c)
                 /\ last'[c].seq > last[c].seq
                 /\ last'[c].prev = last[c].result
         /\ w_pc[c] \in UpdPcs
              => /\ ~ReadsNext(c)
                 /\ req'[c] = req[c]]_vars

\* a connection whose second request, an UpdateSnr, has been answered after
\* its first request had been answered
C15_Witness ==
    \E c \in Conns :
        /\ last[c].seq > 1
        /\ last[c].prev \in {"SUCCESS", "NOTFOUND", "DUPLICATE"}
        /\ last[c].kind = "UpdateSnr"
        /\ last[c].sends = 1
        /\ w_pc[c] = "await"

\* C16: the matrix lock is held only between the lock and the unlock of
\* handle_update_request, never by a worker that waits for a request or
\* sends a response; every way through the lookup and write releases it;
\* and a worker that waits for it gets it (or the process has exited).
C16_LockScope ==
    /\ [](\A c \in Conns : snr_lock = c => w_pc[c] = "upd_write")
    /\ [](snr_lock \in {0} \cup Conns)
    /\ [][\A c \in Conns :
            (w_pc[c] = "upd_write" /\ w_pc'[c] # "upd_write")
               => (snr_lock = c /\ snr_lock' = 0)]_vars
    /\ \A c \in Conns :
          (w_pc[c] = "upd_lock") ~> (snr_lock = c \/ proc = "exited")

\* one worker waits for the lock while another is between lock and unlock
C16_Witness ==
    \E c \in Conns : \E d \in Conns \ {c} :
        /\ w_pc[c] = "upd_lock"
        /\ snr_lock = d
        /\ w_pc[d] = "upd_write"

\* the worker of c is inside the while loop of handle_accepted_connection
InLoop(c) == w_pc[c] \in {"await", "loopbreak"} \cup UpdPcs

\* C17: however a worker leaves its loop (peer gone, read or decode error,
\* handler Error, Shutdown) it comes to the close of its socket, closes it
\* once and ends; between leaving the loop and the close it reads no
\* request and sends no response, and after the close it does nothing.
C17_ClosedExactlyOnce ==
    /\ [](\A c \in Conns :
            last[c].closes = IF w_pc[c] = "closed" THEN 1 ELSE 0)
    /\ [][\A c \in Conns :
            /\ (InLoop(c) /\ w_pc'[c] \notin {"await", "loopbreak"} \cup UpdPcs)
                  => w_pc'[c] = "closing"
            /\ w_pc[c] = "closing"
                  => /\ w_pc'[c] \in {"closing", "closed"}
                     /\ last'[c].seq = last[c].seq
                     /\ last'[c].sends = last[c].sends
                     /\ req'[c] = req[c]
            /\ w_pc[c] = "closed"
                  => (w_pc'[c] = "closed" /\ last'[c] = last[c])]_vars
    /\ \A c \in Conns :
          (w_pc[c] = "closing") ~> (w_pc[c] = "closed" \/ proc = "exited")

\* one connection was closed after a Shutdown request, the other after its
\* handler returned Error
C17_Witness ==
    \E c \in Conns : \E d \in Conns \ {c} :
        /\ w_pc[c] = "closed" /\ last[c].kind = "Shutdown"
        /\ last[c].closes = 1
        /\ w_pc[d] = "closed" /\ last[d].action = WACTION_ERROR
        /\ last[d].closes = 1

\* the step in which on_listen_event runs to its end
CallbackRuns == srv_pc = "callback" /\ srv_pc' = "dispatch"

\* C18: a run of the accept callback keeps the acceptor in its loop whether
\* accept failed or not, reads and writes no connection, launches a worker
\* for no connection it did not accept, and every connection it did accept
\* has its own worker afterwards; nothing else starts a worker.
C18_AcceptFailureNonFatal ==
    [][/\ srv_pc = "callback" => srv_pc' \in {"callback", "dispatch", "cancelled"}
       /\ CallbackRuns
            => /\ UNCHANGED <<nreq, req, loc, last, reg_vars>>
               /\ proc' = "running"
               /\ \A c \in Conns :
                     \/ w_pc'[c] = w_pc[c]
                     \/ w_pc[c] = "pending" /\ w_pc'[c] = "await"
       /\ \A c \in Conns :
            (w_pc[c] \in {"idle", "pending"} /\ w_pc'[c] \notin {"idle", "pending"})
               => CallbackRuns]_vars

\* C19: no worker ever calls event_base_loopbreak on an event base that
\* run_wserver has freed, or that was never created.
C19_NoLoopBreakOnFreedBase == ~base_misuse

\* the step in which shutdown_wserver runs
CleanupRuns == cleanup_count' # cleanup_count

\* C20: shutdown_wserver runs its close and its unlink only when listen_soc
\* is the descriptor of a listening socket this server created and that is
\* still open: never on the unset or failed descriptor, never on a path the
\* server did not bind.
C20_CleanupOnlyOpenSocket ==
    [][CleanupRuns => (listen_soc = ListenFd /\ sock_state = "listening")]_vars
====
